---- MODULE Spec2Model ----
(***************************************************************************)
(* OpenTimestamps Viewer (src/src/main.rs).                                *)
(*                                                                         *)
(* Two specifications over one set of definitions:                         *)
(*   SpecRender  the pure functions render_steps and doc_id, applied to    *)
(*               proof trees drawn from bounded sets;                      *)
(*   Spec        the HTTP handlers upload, view and download acting on the *)
(*               cache/ directory, with concurrent upload requests.        *)
(*                                                                         *)
(* Byte strings are sequences of naturals, text is TLA+ strings, and every *)
(* format!() of the source is modelled by the text it produces.            *)
(***************************************************************************)
EXTENDS Integers, Sequences, FiniteSets, TLC

VARIABLES
    in_step,     \* render: the Step handed to render_steps / doc_id
    in_digest,   \* render: the start digest (initial prev_data)
    in_prefix,   \* render: the prefix handed to render_steps
    rendered,    \* render: outcome of render_steps
    ident,       \* render: outcome of doc_id
    cache,       \* handlers: the files of cache/, name -> content
    req,         \* handlers: the upload request each worker is serving
    resp,        \* handlers: the response of the latest handler step
    completed    \* history: the ids some upload has completed successfully

rvars == <<in_step, in_digest, in_prefix, rendered, ident>>
cvars == <<cache, req, resp, completed>>
vars == <<in_step, in_digest, in_prefix, rendered, ident,
          cache, req, resp, completed>>

----------------------------------------------------------------------------
(* Bounds of the model *)

MaxFork == 2        \* most children of a Fork
MaxLit == 4         \* longest Append / Prepend literal

----------------------------------------------------------------------------
(* Text and byte helpers *)

HexDigits == <<"0", "1", "2", "3", "4", "5", "6", "7",
               "8", "9", "a", "b", "c", "d", "e", "f">>

HexByte(b) == HexDigits[(b \div 16) + 1] \o HexDigits[(b % 16) + 1]

\* ots::hex::Hexed as Display: two lower-case hex digits per byte
RECURSIVE Hexed(_)
Hexed(bytes) ==
    IF bytes = <<>> THEN "" ELSE HexByte(Head(bytes)) \o Hexed(Tail(bytes))

\* prev_data.iter().rev().collect()
Reversed(bytes) == [i \in 1..Len(bytes) |-> bytes[Len(bytes) + 1 - i]]

\* the length of the preview slice &newdata[0..3]
PreviewLen == 3

\* &newdata[0..3] is in bounds
SliceOk(newdata) == Len(newdata) >= PreviewLen

\* the byte strings bitcoin's deserialize::<Transaction> accepts; the codec is
\* an external collaborator, here a fixed recognisable family of byte strings
IsTransaction(bytes) == Len(bytes) >= 2 /\ bytes[1] = bytes[2]

\* tx.bitcoin_hash() shown as text: an opaque, injective digest of the bytes
bitcoin_hash(bytes) == "txid:" \o Hexed(bytes)

\* Display of an Op without payload
op_display(op) == op.name \o "()"

----------------------------------------------------------------------------
(* The proof tree: ots::timestamp::Step, StepData, Op, Attestation *)

ForkData == [kind |-> "Fork"]
OpData(op) == [kind |-> "Op", op |-> op]
AttestationData(attest) == [kind |-> "Attestation", attest |-> attest]

Unary(name) == [name |-> name, newdata |-> <<>>]
Binary(name, newdata) == [name |-> name, newdata |-> newdata]

Bitcoin(height) ==
    [name |-> "Bitcoin", height |-> height, uri |-> "", tag |-> <<>>, data |-> <<>>]
Pending(uri) ==
    [name |-> "Pending", height |-> 0, uri |-> uri, tag |-> <<>>, data |-> <<>>]
Unknown(tag, data) ==
    [name |-> "Unknown", height |-> 0, uri |-> "", tag |-> tag, data |-> data]

Step(data, output, next) == [data |-> data, output |-> output, next |-> next]

DisplayedStep(prefix, result, reason, class) ==
    [prefix |-> prefix, result |-> result, reason |-> reason, class |-> class]

----------------------------------------------------------------------------
(* render_steps *)

\* the outcome of a call: the records pushed to vec so far, and whether the
\* call panicked (an out-of-range slice or index) instead of returning
Returned(vec) == [panicked |-> FALSE, vec |-> vec]
Panicked(vec) == [panicked |-> TRUE, vec |-> vec]

\* variant: the branch index taken 0-based
fork_prefix_zero_based(prefix, n) ==
    IF prefix = "" THEN ToString(n) \o " "
    ELSE prefix \o "- " \o ToString(n) \o " "

fork_prefix(prefix, n) ==
    IF prefix = "" THEN ToString(n + 1) \o " "
    ELSE prefix \o "- " \o ToString(n + 1) \o " "

attestation_result(attest, prev_data) ==
    CASE attest.name = "Unknown" ->
           "Unknown attestation <b>" \o Hexed(attest.tag) \o "</b>/<b>"
               \o Hexed(attest.data) \o "</b>"
      [] attest.name = "Pending" ->
           "Pending attestation: server <b>" \o attest.uri \o "</b>"
      [] attest.name = "Bitcoin" ->
           "Merkle root <b>" \o Hexed(Reversed(prev_data))
               \o "</b> of Bitcoin block <b>" \o ToString(attest.height) \o "</b>"

\* the records one Op arm pushes; panics where the preview slice is out of range
op_records(step, vec, prev_data, prefix) ==
    LET op == step.data.op IN
    CASE op.name \in {"SHA1", "SHA256", "RIPEMD160", "Reverse", "Hexlify"} ->
           Returned(Append(vec, DisplayedStep(prefix,
               "<tt>" \o Hexed(step.output) \o "</tt>",
               op_display(op), "step_op")))
      [] op.name = "Append" ->
           IF ~SliceOk(op.newdata) THEN Panicked(vec)
           ELSE LET v1 == Append(vec, DisplayedStep(prefix,
                        "<tt>" \o Hexed(prev_data) \o "<font color=\"green\">"
                            \o Hexed(op.newdata) \o "</font></tt>",
                        "Append(" \o Hexed(SubSeq(op.newdata, 1, PreviewLen)) \o "...)",
                        "step_op"))
                IN  IF IsTransaction(step.output)
                    THEN Returned(Append(v1, DisplayedStep(prefix,
                             "Bitcoin transaction <b>" \o bitcoin_hash(step.output) \o "</b>",
                             "(Parse TX)", "step_parse")))
                    ELSE Returned(v1)
      [] op.name = "Prepend" ->
           IF ~SliceOk(op.newdata) THEN Panicked(vec)
           ELSE Returned(Append(vec, DisplayedStep(prefix,
                    "<tt><font color=\"green\">" \o Hexed(op.newdata) \o "</font>"
                        \o Hexed(prev_data) \o "</tt>",
                    "Prepend(" \o Hexed(SubSeq(op.newdata, 1, PreviewLen)) \o "...)",
                    "step_op")))

RECURSIVE render_steps(_, _, _, _), render_fork(_, _, _, _, _)

\* variant: the Fork hands its own output to its children
render_fork_own_output(step, vec, prev_data, prefix, n) ==
    IF n >= Len(step.next) THEN Returned(vec)
    ELSE LET r == render_steps(step.next[n + 1], vec, step.output, fork_prefix(prefix, n))
         IN  IF r.panicked THEN r
             ELSE render_fork(step, r.vec, prev_data, prefix, n + 1)

\* the for loop of the Fork arm, from child n (0-based) on
render_fork(step, vec, prev_data, prefix, n) ==
    IF n >= Len(step.next) THEN Returned(vec)
    ELSE LET r == render_steps(step.next[n + 1], vec, prev_data, fork_prefix(prefix, n))
         IN  IF r.panicked THEN r
             ELSE render_fork(step, r.vec, prev_data, prefix, n + 1)

render_steps(step, vec, prev_data, prefix) ==
    CASE step.data.kind = "Fork" ->
           render_fork(step,
               Append(vec, DisplayedStep(prefix,
                   "Fork into <b>" \o ToString(Len(step.next)) \o "</b> paths",
                   "Fork", "step_fork")),
               prev_data, prefix, 0)
      [] step.data.kind = "Op" ->
           LET r == op_records(step, vec, prev_data, prefix) IN
           IF r.panicked THEN r
           ELSE IF step.next = <<>> THEN Panicked(r.vec)
           ELSE render_steps(step.next[1], r.vec, step.output, prefix)
      [] step.data.kind = "Attestation" ->
           Returned(Append(vec, DisplayedStep(prefix,
               attestation_result(step.data.attest, prev_data),
               "Attestation", "step_attest")))

----------------------------------------------------------------------------
(* doc_id *)

\* Sha256 as an opaque injective digest: the hasher is the bytes fed to it
RECURSIVE doc_id_hash_recurse(_, _), doc_id_hash_next(_, _, _)

doc_id_hash_next(step, hasher, n) ==
    IF n > Len(step.next) THEN hasher
    ELSE doc_id_hash_next(step, doc_id_hash_recurse(step.next[n], hasher), n + 1)

\* variant: a step's output fed after its children's
doc_id_hash_recurse_post(step, hasher) ==
    doc_id_hash_next(step, hasher, 1) \o step.output

doc_id_hash_recurse(step, hasher) ==
    doc_id_hash_next(step, hasher \o step.output, 1)

\* the bytes the hasher has been fed when hasher.result() is called
doc_id_input(dtf) == doc_id_hash_recurse(dtf.first_step, <<>> \o dtf.start_digest)

doc_id(dtf) == "sha256:" \o Hexed(doc_id_input(dtf))

----------------------------------------------------------------------------
(* Inputs of the pure functions *)

\* a literal of n bytes; the bytes take both hex digits
Lit(n) == [i \in 1..n |-> 10 * i + 7]

Lits == {Lit(n) : n \in 0..MaxLit}

\* step outputs and start digests: one that parses as a transaction, one that
\* does not and is no palindrome
Outs == {<<1, 2>>, <<3, 3>>}

Prefixes == {"", "1 "}

Atts == {Bitcoin(500000), Pending("https://a.pool.opentimestamps.org"),
         Unknown(<<1, 2>>, <<255>>)}

Ops == {Unary(n) : n \in {"SHA1", "SHA256", "RIPEMD160", "Reverse", "Hexlify"}}
       \cup {Binary(n, l) : n \in {"Append", "Prepend"}, l \in Lits}

Leaves == {Step(AttestationData(a), o, <<>>) : a \in Atts, o \in Outs}

\* every operation and payload over every attestation
PayloadSteps ==
    Leaves \cup {Step(OpData(op), o, <<c>>) : op \in Ops, o \in Outs, c \in Leaves}

\* sequences of 1..MaxFork members of S
Children(S) == UNION {[1..n -> S] : n \in 1..MaxFork}

SLeaves == {Step(AttestationData(Bitcoin(500000)), <<3, 3>>, <<>>)}
SOps == {Unary("SHA256"), Binary("Append", Lit(PreviewLen))}
ForkOut == <<9>>

\* one level of operations and forks above the members of S
Above(S) ==
    {Step(OpData(op), o, <<c>>) : op \in SOps, o \in Outs, c \in S}
    \cup {Step(ForkData, ForkOut, cs) : cs \in Children(S)}

Level1 == SLeaves \cup Above(SLeaves)

\* forks of forks, forks of chains, chains over forks
StructSteps == Level1 \cup Above(Level1)

Steps == PayloadSteps \cup StructSteps

RenderIdle == [done |-> FALSE, panicked |-> FALSE, vec |-> <<>>]
IdentIdle == [done |-> FALSE, hashed |-> <<>>, id |-> ""]

----------------------------------------------------------------------------
(* SpecRender: the pure functions applied to the inputs *)

CacheIdle ==
    /\ cache = <<>>
    /\ req = <<>>
    /\ resp = <<>>
    /\ completed = {}

RInit ==
    /\ in_step \in Steps
    /\ in_digest \in Outs
    /\ in_prefix \in Prefixes
    /\ rendered = RenderIdle
    /\ ident = IdentIdle
    /\ CacheIdle

Render ==
    /\ ~rendered.done
    /\ LET r == render_steps(in_step, <<>>, in_digest, in_prefix)
       IN  rendered' = [done |-> TRUE, panicked |-> r.panicked, vec |-> r.vec]
    /\ UNCHANGED <<in_step, in_digest, in_prefix, ident>>
    /\ UNCHANGED cvars

DocId ==
    /\ ~ident.done
    /\ LET dtf == [start_digest |-> in_digest, first_step |-> in_step]
       IN  ident' = [done |-> TRUE, hashed |-> doc_id_input(dtf), id |-> doc_id(dtf)]
    /\ UNCHANGED <<in_step, in_digest, in_prefix, rendered>>
    /\ UNCHANGED cvars

RNext == Render \/ DocId

SpecRender == RInit /\ [][RNext]_vars

----------------------------------------------------------------------------
(* Reference description of a tree by the paths of its nodes.  A path is the *)
(* sequence of 1-based child positions from the root; pre-order is the       *)
(* order in which a path comes before its extensions and before the paths    *)
(* through later siblings.                                                   *)

RECURSIVE Nodes(_)
Nodes(step) ==
    {<<>>} \cup UNION {{<<i>> \o p : p \in Nodes(step.next[i])} : i \in 1..Len(step.next)}

RECURSIVE NodeAt(_, _)
NodeAt(step, path) ==
    IF path = <<>> THEN step ELSE NodeAt(step.next[Head(path)], Tail(path))

IsPrefixOf(p, q) == Len(p) <= Len(q) /\ SubSeq(q, 1, Len(p)) = p

Before(p, q) ==
    \/ p # q /\ IsPrefixOf(p, q)
    \/ \E k \in 1..Len(p) :
          /\ k <= Len(q)
          /\ SubSeq(p, 1, k - 1) = SubSeq(q, 1, k - 1)
          /\ p[k] < q[k]

Rank(step, p) == 1 + Cardinality({q \in Nodes(step) : Before(q, p)})

PreOrder(step) ==
    [i \in 1..Cardinality(Nodes(step)) |->
        CHOOSE p \in Nodes(step) : Rank(step, p) = i]

\* the strict ancestors of the node at path, nearest last
Ancestors(path) == [k \in 1..Len(path) |-> SubSeq(path, 1, k - 1)]

\* the branch label the specification gives child i under prefix p
BranchLabel(p, i) ==
    IF p = "" THEN ToString(i) \o " " ELSE p \o "- " \o ToString(i) \o " "

\* the label of a node: one branch label per Fork on the way down to it
RECURSIVE LabelAt(_, _, _, _)
LabelAt(step, p, path, k) ==
    IF k > Len(path) THEN p
    ELSE LabelAt(step,
                 IF NodeAt(step, SubSeq(path, 1, k - 1)).data.kind = "Fork"
                 THEN BranchLabel(p, path[k]) ELSE p,
                 path, k + 1)

\* the output of the nearest Operation above the node, else the start digest
PriorBytes(step, start, path) ==
    LET ops == {k \in 1..Len(path) :
                   NodeAt(step, SubSeq(path, 1, k - 1)).data.kind = "Op"}
    IN  IF ops = {} THEN start
        ELSE NodeAt(step, SubSeq(path, 1,
                 (CHOOSE k \in ops : \A j \in ops : j <= k) - 1)).output

\* the records of a rendering without the parse hints: one per step rendered
StepRecords(vec) == SelectSeq(vec, LAMBDA d : d.class # "step_parse")

RECURSIVE Concat(_)
Concat(seqs) == IF seqs = <<>> THEN <<>> ELSE Head(seqs) \o Concat(Tail(seqs))

IsOp(node, name) == node.data.kind = "Op" /\ node.data.op.name = name

IsAtt(node, name) == node.data.kind = "Attestation" /\ node.data.attest.name = name

----------------------------------------------------------------------------
(* Claims about render_steps and doc_id, under SpecRender *)

\* C4: render_steps is total over well-formed trees: whatever the operation
\* payload (Append / Prepend literals of 0, 1 or 2 bytes included) it returns
\* a record sequence and never fails or aborts.
C4_RenderTotal == rendered.done => ~rendered.panicked

\* the record classes the specification gives one step
ClassOf(node) ==
    CASE node.data.kind = "Fork" -> "step_fork"
      [] node.data.kind = "Op" -> "step_op"
      [] node.data.kind = "Attestation" -> "step_attest"

\* the records emitted so far are those of the first steps in pre-order, each
\* under the label of its branch, with one fork record per Fork reporting its
\* number of children
ForkRecordsAgree ==
    LET recs == StepRecords(rendered.vec)
        order == PreOrder(in_step)
    IN  /\ Len(recs) <= Len(order)
        /\ ~rendered.panicked => Len(recs) = Len(order)
        /\ \A i \in 1..Len(recs) :
              LET node == NodeAt(in_step, order[i]) IN
              /\ recs[i].prefix = LabelAt(in_step, in_prefix, order[i], 1)
              /\ recs[i].class = ClassOf(node)
              /\ node.data.kind = "Fork" =>
                    /\ recs[i].reason = "Fork"
                    /\ recs[i].result =
                          "Fork into <b>" \o ToString(Len(node.next)) \o "</b> paths"

\* a root Fork, rendered under the empty prefix, whose second child is a Fork
\* of at least two children
NestedForkInput ==
    /\ in_prefix = ""
    /\ in_step.data.kind = "Fork"
    /\ Len(in_step.next) >= 2
    /\ in_step.next[2].data.kind = "Fork"
    /\ Len(in_step.next[2].next) >= 2

\* the records under the second branch of the second child carry this label
NestedBranchLabelled(label) ==
    LET recs == StepRecords(rendered.vec)
        order == PreOrder(in_step)
    IN  NestedForkInput =>
           \A i \in 1..Len(recs) : IsPrefixOf(<<2, 2>>, order[i]) => recs[i].prefix = label

C7_DocIdPreOrder ==
    ident.done =>
        LET order == PreOrder(in_step) IN
        ident.hashed =
            in_digest \o Concat([i \in 1..Len(order) |-> NodeAt(in_step, order[i]).output])

C7_Witness ==
    /\ ident.done
    /\ in_step.data.kind = "Fork"
    /\ Len(in_step.next) >= 2
    /\ in_step.next[1].output # in_step.next[2].output
    /\ in_step.next[1].next # <<>>
    /\ in_step.output # in_step.next[1].output

\* the classes of the records the specification gives one step
ClassesOf(node) ==
    IF IsOp(node, "Append") /\ IsTransaction(node.output)
    THEN <<"step_op", "step_parse">>
    ELSE <<ClassOf(node)>>

\* C9: an Append step emits its record and, exactly when its output parses as
\* a transaction, one "(Parse TX)" record right after it under the same
\* prefix; a Prepend step and every unary step emit exactly one record; no
\* error is raised.
C9_AppendDetection ==
    rendered.done =>
        LET order == PreOrder(in_step)
            vec == rendered.vec
        IN  /\ ~rendered.panicked
            /\ [i \in 1..Len(vec) |-> vec[i].class]
                  = Concat([i \in 1..Len(order) |-> ClassesOf(NodeAt(in_step, order[i]))])
            /\ \A i \in 1..Len(vec) :
                  vec[i].class = "step_parse" =>
                      /\ vec[i].reason = "(Parse TX)"
                      /\ i > 1
                      /\ vec[i].prefix = vec[i - 1].prefix

\* C10: every step is rendered with the output of its nearest Operation
\* ancestor, or the start digest if it has none: a Fork hands the bytes it
\* received to every child, an Operation leaves the prefix to its child, and a
\* Bitcoin attestation reports those prior bytes reversed, not its own output.
C10_PriorBytes ==
    rendered.done =>
        LET recs == StepRecords(rendered.vec)
            order == PreOrder(in_step)
        IN  \A i \in 1..Len(recs) :
               LET node == NodeAt(in_step, order[i])
                   prior == PriorBytes(in_step, in_digest, order[i])
               IN  /\ IsAtt(node, "Bitcoin") =>
                         recs[i].result =
                             "Merkle root <b>" \o Hexed(Reversed(prior))
                                 \o "</b> of Bitcoin block <b>"
                                 \o ToString(node.data.attest.height) \o "</b>"
                   /\ IsOp(node, "Append") =>
                         recs[i].result =
                             "<tt>" \o Hexed(prior) \o "<font color=\"green\">"
                                 \o Hexed(node.data.op.newdata) \o "</font></tt>"
                   /\ IsOp(node, "Prepend") =>
                         recs[i].result =
                             "<tt><font color=\"green\">" \o Hexed(node.data.op.newdata)
                                 \o "</font>" \o Hexed(prior) \o "</tt>"
                   /\ (order[i] # <<>>
                         /\ NodeAt(in_step, SubSeq(order[i], 1, Len(order[i]) - 1)).data.kind = "Op")
                      => recs[i].prefix =
                            recs[Rank(in_step, SubSeq(order[i], 1, Len(order[i]) - 1))].prefix

C10_Witness ==
    /\ rendered.done
    /\ ~rendered.panicked
    /\ in_step.data.kind = "Fork"
    /\ in_step.output # in_digest
    /\ \E p \in Nodes(in_step) :
          /\ IsAtt(NodeAt(in_step, p), "Bitcoin")
          /\ Len(p) >= 2
          /\ PriorBytes(in_step, in_digest, p) # NodeAt(in_step, p).output
          /\ PriorBytes(in_step, in_digest, p) # Reversed(PriorBytes(in_step, in_digest, p))
    /\ \E i \in 1..Len(in_step.next) : IsAtt(in_step.next[i], "Bitcoin")

----------------------------------------------------------------------------
(* The proof file format: DetachedTimestampFile::from_reader / to_writer.    *)
(* The codec is the opentimestamps crate; digests, magic and tags are        *)
(* shortened, the layout is kept: header, start digest, then the steps in    *)
(* pre-order, a 0xff marker before every child of a Fork but the last.  The   *)
(* writes reach the file one part at a time: the header with the start       *)
(* digest, then each step.                                                   *)

Magic == <<0, 79, 84, 83>>
Header == Magic \o <<1>> \o <<8>>

op_tag(op) ==
    CASE op.name = "SHA1" -> <<2>>
      [] op.name = "RIPEMD160" -> <<3>>
      [] op.name = "SHA256" -> <<8>>
      [] op.name = "Append" -> <<240, Len(op.newdata)>> \o op.newdata
      [] op.name = "Prepend" -> <<241, Len(op.newdata)>> \o op.newdata
      [] op.name = "Reverse" -> <<242>>
      [] op.name = "Hexlify" -> <<243>>

attestation_bytes(attest) ==
    CASE attest.name = "Bitcoin" -> <<0, 5, 136, 1, attest.height>>
      [] attest.name = "Unknown" ->
           <<0>> \o attest.tag \o <<Len(attest.data)>> \o attest.data

RECURSIVE step_chunks(_), fork_chunks(_, _)

fork_chunks(step, n) ==
    IF n > Len(step.next) THEN <<>>
    ELSE (IF n < Len(step.next) THEN <<<<255>>>> ELSE <<>>)
         \o step_chunks(step.next[n]) \o fork_chunks(step, n + 1)

\* the writes one step makes, in order
step_chunks(step) ==
    CASE step.data.kind = "Fork" -> fork_chunks(step, 1)
      [] step.data.kind = "Op" -> <<op_tag(step.data.op)>> \o step_chunks(step.next[1])
      [] step.data.kind = "Attestation" -> <<attestation_bytes(step.data.attest)>>

\* dtf.to_writer(fh): the writes it makes to fh, in order
to_writer(dtf) == <<Header \o dtf.start_digest>> \o step_chunks(dtf.first_step)

Serialized(dtf) == Concat(to_writer(dtf))

\* Op::execute for the operations that are not hashes
execute(op, input) ==
    CASE op.name = "Append" -> input \o op.newdata
      [] op.name = "Prepend" -> op.newdata \o input
      [] op.name = "Reverse" -> Reversed(input)

\* the decoder's tree: an attestation and a Fork carry their input as output,
\* an operation carries the result of executing it
DecodedAttestation(attest, input) == Step(AttestationData(attest), input, <<>>)
DecodedOp(op, input, attest) ==
    Step(OpData(op), execute(op, input), <<DecodedAttestation(attest, execute(op, input))>>)

StartDigest == <<1, 2>>

Timestamp(first_step) ==
    [start_digest |-> StartDigest, digest_type |-> "SHA256", first_step |-> first_step]

\* the proofs uploaded: two that differ only in the block height attested, and
\* one with an Append before the attestation
Proofs ==
    {Timestamp(DecodedAttestation(Bitcoin(1), StartDigest)),
     Timestamp(DecodedAttestation(Bitcoin(2), StartDigest)),
     Timestamp(DecodedOp(Binary("Append", Lit(PreviewLen)), StartDigest, Bitcoin(1)))}

\* DetachedTimestampFile::from_reader: the proof whose serialization the bytes
\* are, or an error
from_reader(bytes) ==
    IF \E dtf \in Proofs : Serialized(dtf) = bytes
    THEN [ok |-> TRUE, dtf |-> CHOOSE dtf \in Proofs : Serialized(dtf) = bytes]
    ELSE [ok |-> FALSE, dtf |-> Timestamp(DecodedAttestation(Bitcoin(0), <<>>))]

----------------------------------------------------------------------------
(* The cache directory and the handlers *)

Workers == {"w1", "w2"}

\* the multipart bodies posted: unparsable, without a "file" field, with a
\* file that cannot be opened, and with a file of these bytes
Posts ==
    {[form |-> f, bytes |-> <<>>] : f \in {"bad", "nofile", "unreadable"}}
    \cup {[form |-> "file", bytes |-> b] :
             b \in {Serialized(dtf) : dtf \in Proofs} \cup {<<>>, Header}}

Names == {doc_id(dtf) : dtf \in Proofs} \cup {"nonesuch"}

\* cache/<name> as a reader opening it finds it
Entry(c, name) ==
    IF name \in DOMAIN c THEN [exists |-> TRUE, data |-> c[name]]
    ELSE [exists |-> FALSE, data |-> <<>>]

\* fs::File::create: the file exists and is empty (O_CREAT | O_TRUNC)
Created(c, name) == [n \in DOMAIN c \cup {name} |-> IF n = name THEN <<>> ELSE c[n]]

\* a write of chunk at byte offset off of a file holding data; a gap left by a
\* truncation reads as zeros
WrittenAt(data, off, chunk) ==
    [i \in 1..(IF Len(data) > off + Len(chunk) THEN Len(data) ELSE off + Len(chunk)) |->
        IF i > off /\ i <= off + Len(chunk) THEN chunk[i - off]
        ELSE IF i <= Len(data) THEN data[i] ELSE 0]

\* what an upload finds under its id: no entry, the complete bytes of a proof,
\* or an entry that is neither
Found(c, name) ==
    IF name \notin DOMAIN c THEN [kind |-> "none", data |-> <<>>]
    ELSE IF from_reader(c[name]).ok THEN [kind |-> "complete", data |-> c[name]]
    ELSE [kind |-> "partial", data |-> <<>>]

\* a worker: idle, or writing the chunks of a proof to cache/<id>
Idle ==
    [pc |-> "idle", id |-> "", chunks |-> <<>>, at |-> 0, off |-> 0,
     before |-> [kind |-> "none", data |-> <<>>]]

\* no response yet
NoResp ==
    [handler |-> "", outcome |-> "", redirect |-> "", name |-> "", found |-> FALSE,
     body |-> <<>>, steps |-> <<>>, before |-> [kind |-> "none", data |-> <<>>]]

\* the response of upload: a Redirect, or none where the handler panics; id is
\* the identifier computed ("" if none was), body the bytes to_writer was
\* given, before the entry as File::create found it
Redirected(outcome, redirect, id, body, before) ==
    [NoResp EXCEPT !.handler = "upload", !.outcome = outcome, !.redirect = redirect,
                   !.name = id, !.body = body, !.before = before]

\* POST /upload served by worker w, up to and including fs::File::create, with
\* the cache directory found as c.  Nothing before File::create touches the
\* directory, so the step is atomic.
UploadFrom(w, post, c) ==
    /\ req[w].pc = "idle"
    /\ UNCHANGED completed
    /\ UNCHANGED rvars
    /\ CASE post.form = "bad" ->
              \* MultipartFormData::parse(..).unwrap() panics: no Redirect
              /\ resp' = Redirected("panic", "", "", <<>>, NoResp.before)
              /\ cache' = c
              /\ UNCHANGED req
         [] post.form = "nofile" ->
              /\ resp' = Redirected("no_file", "/", "", <<>>, NoResp.before)
              /\ cache' = c
              /\ UNCHANGED req
         [] post.form = "unreadable" ->
              /\ resp' = Redirected("open_err", "/", "", <<>>, NoResp.before)
              /\ cache' = c
              /\ UNCHANGED req
         [] post.form = "file" /\ ~from_reader(post.bytes).ok ->
              /\ resp' = Redirected("decode_err", "/", "", <<>>, NoResp.before)
              /\ cache' = c
              /\ UNCHANGED req
         [] post.form = "file" /\ from_reader(post.bytes).ok ->
              LET dtf == from_reader(post.bytes).dtf
                  id == doc_id(dtf)
              IN  \/ \* File::create succeeds: cache/<id> exists and is empty
                     /\ req' = [req EXCEPT ![w] =
                                   [Idle EXCEPT !.pc = "writing", !.id = id,
                                                !.chunks = to_writer(dtf),
                                                !.before = Found(c, id)]]
                     /\ cache' = Created(c, id)
                     /\ resp' = NoResp
                  \/ \* File::create fails
                     /\ resp' = Redirected("create_err", "/", id, Serialized(dtf),
                                           Found(c, id))
                     /\ cache' = c
                     /\ UNCHANGED req

\* variant: the posted file is spooled into the cache directory before it is decoded
Upload_spooled(w, post) ==
    UploadFrom(w, post,
        IF post.form = "file"
        THEN [n \in DOMAIN cache \cup {"upload.tmp"} |->
                 IF n = "upload.tmp" THEN post.bytes ELSE cache[n]]
        ELSE cache)

Upload(w, post) == UploadFrom(w, post, cache)

\* dtf.to_writer(fh): the next write of worker w, or its failure.  Each open
\* file has its own offset; the last write ends the upload with the redirect
\* to /view/<id>, and the worker takes the next request.
Write(w) ==
    /\ req[w].pc = "writing"
    /\ UNCHANGED rvars
    /\ LET r == req[w]
           chunk == r.chunks[r.at + 1]
           last == r.at + 1 = Len(r.chunks)
       IN  \/ \* the write fails: "Filed to write timestamp", Redirect to "/"
              /\ resp' = Redirected("write_err", "/", r.id, Concat(r.chunks), r.before)
              /\ req' = [req EXCEPT ![w] = Idle]
              /\ UNCHANGED <<cache, completed>>
           \/ /\ cache' = [cache EXCEPT ![r.id] = WrittenAt(cache[r.id], r.off, chunk)]
              /\ req' = [req EXCEPT ![w] =
                            IF last THEN Idle
                            ELSE [r EXCEPT !.at = r.at + 1, !.off = r.off + Len(chunk)]]
              /\ resp' = IF last
                         THEN Redirected("ok", "/view/" \o r.id, r.id,
                                         Concat(r.chunks), r.before)
                         ELSE NoResp
              /\ completed' = IF last THEN completed \cup {r.id} ELSE completed

\* the response of view or download: whether cache/<name> could be opened and
\* the bytes read from it
Served(handler, outcome, name, e, steps) ==
    [NoResp EXCEPT !.handler = handler, !.outcome = outcome, !.name = name,
                   !.found = e.exists, !.body = e.data, !.steps = steps]

\* GET /view/<name>.  The title's preview of the start digest is left out:
\* digests are shortened here and never shorter than it in a decoded proof.
View(name) ==
    /\ LET e == Entry(cache, name)
           d == from_reader(e.data)
           r == render_steps(d.dtf.first_step, <<>>, d.dtf.start_digest, "")
       IN  resp' =
             IF ~e.exists THEN Served("view", "error", name, e, <<>>)
             ELSE IF ~d.ok THEN Served("view", "error", name, e, <<>>)
             ELSE IF r.panicked THEN Served("view", "panic", name, e, <<>>)
             ELSE Served("view", "entry:" \o doc_id(d.dtf), name, e, r.vec)
    /\ UNCHANGED <<cache, req, completed>>
    /\ UNCHANGED rvars

\* GET /download/<name>
Download(name) ==
    /\ LET e == Entry(cache, name)
       IN  resp' = Served("download", IF e.exists THEN "file" ELSE "none", name, e, <<>>)
    /\ UNCHANGED <<cache, req, completed>>
    /\ UNCHANGED rvars

Init ==
    /\ cache = <<>>
    /\ req = [w \in Workers |-> Idle]
    /\ resp = NoResp
    /\ completed = {}
    /\ in_step = Step(AttestationData(Bitcoin(0)), <<>>, <<>>)
    /\ in_digest = <<>>
    /\ in_prefix = ""
    /\ rendered = RenderIdle
    /\ ident = IdentIdle

Next ==
    \/ \E w \in Workers, post \in Posts : Upload(w, post)
    \/ \E w \in Workers : Write(w)
    \/ \E name \in Names : View(name)
    \/ \E name \in Names : Download(name)

Spec == Init /\ [][Next]_vars

----------------------------------------------------------------------------
(* Claims about the cache, under Spec *)

\* the complete serializations of the proofs whose identifier is name
CompleteFor(name) == {Serialized(dtf) : dtf \in {d \in Proofs : doc_id(d) = name}}

Writing(name) == \E w \in Workers : req[w].pc = "writing" /\ req[w].id = name

\* C1: a reader (view or download) that can open cache/<id> never observes a
\* partially written entry: what it reads is the complete serialized proof of
\* some upload of that id, also while uploads of the id are in progress.
C1_ReaderSeesComplete ==
    (resp.handler \in {"view", "download"} /\ resp.found)
        => resp.body \in CompleteFor(resp.name)

\* C2: entries are immutable once written: an upload that finds complete
\* bytes under its id writes those same bytes (same id, same bytes), and when
\* it has finished the entry holds the bytes it held before.
C2_EntriesImmutable ==
    /\ \A w \in Workers :
          (req[w].pc = "writing" /\ req[w].before.kind = "complete")
              => Concat(req[w].chunks) = req[w].before.data
    /\ (resp.handler = "upload" /\ resp.outcome = "ok" /\ resp.before.kind = "complete")
          => resp.body = resp.before.data

\* C3: an upload that fails while creating or writing cache/<id> redirects to
\* "/" and leaves under the id exactly what was there before it began: no
\* entry if there was none, the previous complete bytes if there was one.
C3_FailureLeavesCache ==
    (resp.handler = "upload" /\ resp.outcome \in {"create_err", "write_err"})
        => /\ resp.redirect = "/"
           /\ resp.before.kind = "none" => resp.name \notin DOMAIN cache
           /\ resp.before.kind = "complete" =>
                 /\ resp.name \in DOMAIN cache
                 /\ cache[resp.name] = resp.before.data

\* C5: after a successful put of bytes under id, with no other put of the id
\* under way, get(id) returns those bytes; and an entry can be opened only if
\* some put for its id has completed successfully.
C5_RoundTrip ==
    /\ (resp.handler = "upload" /\ resp.outcome = "ok" /\ ~Writing(resp.name))
          => Entry(cache, resp.name) = [exists |-> TRUE, data |-> resp.body]
    /\ \A name \in DOMAIN cache : name \in completed
    /\ (resp.handler \in {"view", "download"} /\ resp.found) => resp.name \in completed

\* C8: an upload whose bytes fail to decode leaves the set of cache entries
\* and the bytes of every entry unchanged and redirects to "/" without an
\* identifier; a view leaves the cache unchanged and, where the entry fails
\* to decode, renders the error page.
C8_DecodeFailureFrame ==
    [][/\ (resp'.handler = "upload" /\ resp'.outcome = "decode_err")
             => /\ cache' = cache
                /\ resp'.redirect = "/"
                /\ resp'.name = ""
       /\ resp'.handler = "view"
             => /\ cache' = cache
                /\ (resp'.found /\ ~from_reader(resp'.body).ok)
                      => (resp'.outcome = "error" /\ resp'.steps = <<>>)]_vars

C8_Witness ==
    /\ resp.handler = "upload"
    /\ resp.outcome = "decode_err"
    /\ \E name \in DOMAIN cache : from_reader(cache[name]).ok
    /\ \E name \in DOMAIN cache : ~from_reader(cache[name]).ok

====
